---- MODULE Spec2Model ----
(***************************************************************************)
(* Live backup of the disks of a running libvirt domain, as implemented by *)
(* scripts/virsh-hotbkp.py ("hotbkp"), scripts/kvm_backup_live.py ("live") *)
(* and scripts/virsh.py ("virsh").  One run of the script is one behaviour *)
(* of Spec; the hypervisor, the copy child process and the operator's      *)
(* Ctrl+C are the environment.  SpecRetention runs manage_retention alone  *)
(* on every small backup directory.                                        *)
(***************************************************************************)
EXTENDS Integers, Sequences, FiniteSets, TLC

VARIABLES
    variant,             \* which script is run
    mode,                \* --mode
    targets,             \* --disk, as set(target_devs_list)
    retention_days,      \* --retention-days (BACKUP_RETENTION_DAYS in virsh.py)
    pc,                  \* position of the main thread
    exitCode,            \* process exit status, NoExit while running
    interrupted,         \* a KeyboardInterrupt has been raised in the main thread
    intAt,               \* where the main thread was when it was raised
    conn, domOk,         \* conn is open / dom is not None
    disk_details,        \* device -> source path
    backup_files_map,    \* devices registered in backup_files_map
    snapshot_files_map,  \* devices registered in snapshot_files_map
    backup_started, snapshot_created, quiesce_success, agent_available,
    attempt,             \* quiesce attempt index
    idx,                 \* position of the running for-loop over disks
    errKind,             \* the libvirtError being handled in Strategy A
    diskSrc,             \* hypervisor: device -> active source path (NoFile: none)
    diskBase,            \* hypervisor: device -> bottom image of the chain
    hvJob,               \* hypervisor: "none", "prior" or "backup"
    hvJobResult,         \* how this run's backup job ended
    snapMeta,            \* hypervisor: registered snapshot names
    agentUp,             \* the guest agent of the domain answers
    dir, dirExists,      \* {backup-dir}/{domain}: earlier .bak artifacts
    others,              \* entries of the directory that are no .bak regular file
    dir0, others0,       \* what the directory held when the run began
    disk_size,           \* device -> os.path.getsize of its source file
    free_bytes,          \* shutil.disk_usage(backup_dir).free
    space_ok,            \* what check_available_space found
    log_dir_ok,          \* LOG_DIR can be created and written
    log_path,            \* the file of the FileHandler, NoLog before setup_logging
    answers,             \* what input() has returned at the confirmation prompts
    retention_calls,     \* how many times manage_retention has been called
    bak,                 \* this run's artifact per device: absent/partial/complete
    rpc, rret,           \* manage_retention: position, and where it returns to
    backups,             \* manage_retention: the sorted (mtime, path) list
    todo,                \* files the classification loop has not reached yet
    for_removal, kept_backups,
    rm_done,             \* files the removal loop has passed
    faults,              \* OS errors injected so far
    ops,                 \* external operations issued, in order
    failPoint,           \* Len(ops) when the first failure or interrupt was raised
    logs                 \* log entries of interest

cfgVars == <<variant, mode, targets, retention_days, dir0, others0,
             disk_size, free_bytes, log_dir_ok>>
ctlVars == <<pc, exitCode, interrupted, intAt>>
connVars == <<conn, domOk>>
mapVars == <<disk_details, backup_files_map, snapshot_files_map>>
flagVars == <<backup_started, snapshot_created, quiesce_success, agent_available,
              attempt, idx, errKind>>
locVars == <<connVars, mapVars, flagVars>>
hvVars  == <<diskSrc, diskBase, hvJob, hvJobResult, snapMeta, agentUp>>
fsVars  == <<dir, dirExists, others, bak>>
retVars == <<rpc, rret, backups, todo, for_removal, kept_backups, rm_done, faults>>
histVars == <<ops, failPoint, logs>>
vars == <<cfgVars, answers, log_path, retention_calls, space_ok, ctlVars, locVars, hvVars, fsVars, retVars, histVars>>

----------------------------------------------------------------------------
\* Bounds of the model.

\* Time is counted in units of 1/UnitsPerDay day.
UnitsPerDay == 2
\* Largest backup directory SpecRetention starts from.
MaxFiles == 7
\* OS errors (getmtime, remove) injected per retention run.
MaxFaults == 1
\* Largest size of a source file and largest free space of the destination,
\* in one unit (a power of two of bytes).
MaxSize == 25
MaxFree == 60

\* Program constants.
BACKUP_RETENTION_DAYS == 7
BACKUP_RETENTION_COUNT == 7
max_quiesce_attempts == 3

\* datetime.now() of the run, and the modification times an earlier artifact
\* may have: written this day, exactly one day ago, one day ago and a bit,
\* exactly two days ago, two days ago and a bit, more than
\* BACKUP_RETENTION_DAYS ago.
Now == BACKUP_RETENTION_DAYS * UnitsPerDay + 1
Ages == {1, UnitsPerDay, UnitsPerDay + 1, 2 * UnitsPerDay, 2 * UnitsPerDay + 1, Now}
Times == {Now - a : a \in Ages}

NoExit == 0 - 1
NoFail == 0 - 1
None == "None"
\* A disk of the descriptor without <source file=...>.
NoFile == [dir |-> "", name |-> <<>>]

DomainName == "vm1"
Timestamp == "T1"
\* The domain descriptor lists vda and vdb, in this order; vdc is not a disk of
\* the domain.
DomainDisks == <<"vda", "vdb">>
DomainDevs == {"vda", "vdb"}

----------------------------------------------------------------------------
\* File names are sequences of tokens; a substring test is a token test.

BaseName(dev) == <<DomainName, "-", dev, ".qcow2">>
ForeignOverlay(dev) == <<DomainName, "-", dev, ".", "snap1">>

unmarked_filename(domain_name, target_dev, timestamp) ==
    <<domain_name, "_", target_dev, "_", timestamp, ".qcow2">>

snap_filename(domain_name, target_dev, timestamp) ==
    <<domain_name, "_", target_dev, "_snapshot_", timestamp, ".qcow2">>

Path(d, name) == [dir |-> d, name |-> name]
basename(p) == p.name
dirname(p) == p.dir

Contains(tok, name) == \E i \in 1..Len(name) : name[i] = tok

\* "_snapshot_" in disk_filename
on_snapshot(p) == Contains("_snapshot_", basename(p))

----------------------------------------------------------------------------
\* manage_retention.  An artifact {domain}-{dev}-{timestamp}.qcow2.bak of the
\* backup directory is its device and its modification time.

Artifacts == [dev : DomainDevs, mtime : Times]

\* Other entries a backup directory may hold, both old: a regular file that
\* is no artifact, and a subdirectory whose name ends in ".bak".
OtherEntries == {[dev |-> "notes.txt", mtime |-> 0], [dev |-> "old.bak/", mtime |-> 0]}

\* os.path.isfile(os.path.join(backup_dir, f))
isfile(e) == e.dev # "old.bak/"

\* A test that takes a name whatever its ending.
any_name(e) == TRUE

\* f.endswith('.bak')
endswith_bak(e) == e.dev # "notes.txt"

\* A listing that takes every entry of the directory.
all_entries(entries) == entries

\* files = [... for f in os.listdir(backup_dir) if isfile(...) and f.endswith('.bak')]
listed_files(entries) == {e \in entries : isfile(e) /\ endswith_bak(e)}

DevRank(dev) == IF dev = "vda" THEN 1 ELSE IF dev = "vdb" THEN 2 ELSE 3

\* Order of the tuples (mtime, path) under list.sort().
TupleLeq(a, b) ==
    \/ a.mtime < b.mtime
    \/ a.mtime = b.mtime /\ DevRank(a.dev) <= DevRank(b.dev)

RECURSIVE SortBackups(_)
SortBackups(S) ==
    IF S = {} THEN <<>>
    ELSE LET m == CHOOSE x \in S : \A y \in S : TupleLeq(x, y)
         IN  <<m>> \o SortBackups(S \ {m})

Max(a, b) == IF a >= b THEN a ELSE b

\* now - timedelta(days=retention_days)
cutoff_date(days) == Now - days * UnitsPerDay

\* A comparison that also expires an artifact written exactly at the cutoff.
expired_at_cutoff(f, days) == f.mtime <= cutoff_date(days)

\* datetime.fromtimestamp(mtime) < cutoff_date
is_expired(f, days) == f.mtime < cutoff_date(days)

\* virsh.py: max(0, len(backups) - (BACKUP_RETENTION_COUNT - 1))
num_to_remove_by_count(n) == Max(0, n - (BACKUP_RETENTION_COUNT - 1))

\* virsh.py: the files of backups[:num_to_remove_by_count]
marked_by_count(bs) ==
    {bs[i] : i \in 1..num_to_remove_by_count(Len(bs))}

\* manage_retention returns to its caller.
RetentionReturns ==
    /\ rpc' = "idle"
    /\ pc' = rret
    /\ rret' = "idle"
    /\ backups' = <<>>
    /\ todo' = {}
    /\ for_removal' = {}
    /\ kept_backups' = {}
    /\ rm_done' = {}

\* isdir, listdir and, in hotbkp and virsh, the getmtime loop and the sort.
\* An exception of os.listdir is caught by the outer "except Exception",
\* which logs it and returns; an OSError of os.path.getmtime is skipped by
\* "continue" without a log entry.
RetentionStart ==
    /\ pc = "retention" /\ rpc = "start"
    /\ retention_calls' = retention_calls + 1
    /\ UNCHANGED <<cfgVars, answers, log_path, space_ok, exitCode, interrupted, intAt, locVars, hvVars, fsVars,
                   ops, failPoint>>
    /\ \/ /\ ~dirExists \/ listed_files(dir \cup others) = {}
          /\ RetentionReturns
          /\ UNCHANGED <<faults, logs>>
       \/ /\ dirExists /\ faults < MaxFaults
          /\ faults' = faults + 1
          /\ logs' = logs \cup {"error: retention failed"}
          /\ RetentionReturns
       \/ /\ dirExists /\ listed_files(dir \cup others) # {}
          /\ \E unreadable \in SUBSET listed_files(dir \cup others) :
              /\ Cardinality(unreadable) <= MaxFaults - faults
              /\ variant = "live" => unreadable = {}
              /\ faults' = faults + Cardinality(unreadable)
              /\ backups' = IF variant = "live" THEN <<>>
                            ELSE SortBackups(listed_files(dir \cup others) \ unreadable)
              /\ todo' = listed_files(dir \cup others) \ unreadable
              /\ rpc' = IF variant = "virsh" THEN "count" ELSE "classify"
              /\ UNCHANGED <<pc, rret, for_removal, kept_backups, rm_done, logs>>

\* virsh.py: the oldest artifacts beyond the retention count are marked.
RetentionCount ==
    /\ pc = "retention" /\ rpc = "count"
    /\ for_removal' = for_removal \cup marked_by_count(backups)
    /\ rpc' = "classify"
    /\ UNCHANGED <<cfgVars, answers, log_path, retention_calls, space_ok, ctlVars, locVars, hvVars, fsVars, histVars,
                   rret, backups, todo, kept_backups, rm_done, faults>>

\* The next file of the classification loop: the sorted order in hotbkp and
\* virsh, the order of os.listdir (any) in live.
NextToClassify(f) ==
    /\ f \in todo
    /\ variant # "live" => \A g \in todo : TupleLeq(f, g)

\* One iteration of the classification loop.
RetentionClassify ==
    /\ pc = "retention" /\ rpc = "classify" /\ todo # {}
    /\ \E f \in todo, mtimeErr \in BOOLEAN :
         /\ NextToClassify(f)
         /\ mtimeErr => variant = "live" /\ faults < MaxFaults
         /\ todo' = todo \ {f}
         /\ faults' = IF mtimeErr THEN faults + 1 ELSE faults
         /\ IF mtimeErr
            THEN UNCHANGED <<for_removal, kept_backups>>
            ELSE IF is_expired(f, retention_days)
            THEN for_removal' = for_removal \cup {f} /\ UNCHANGED kept_backups
            ELSE /\ kept_backups' = IF variant = "virsh" THEN kept_backups
                                     ELSE kept_backups \cup {f}
                 /\ UNCHANGED for_removal
    /\ UNCHANGED <<cfgVars, answers, log_path, retention_calls, space_ok, ctlVars, locVars, hvVars, fsVars, histVars,
                   rpc, rret, backups, rm_done>>

\* A loop that may be left while files are still unclassified.
classification_cut_short == TRUE

\* "for mtime, f in backups" has passed every file.
classification_over == todo = {}

\* The classification loop is over.
RetentionClassified ==
    /\ pc = "retention" /\ rpc = "classify" /\ classification_over
    /\ rpc' = "remove"
    /\ UNCHANGED <<cfgVars, answers, log_path, retention_calls, space_ok, ctlVars, locVars, hvVars, fsVars, histVars,
                   rret, backups, todo, for_removal, kept_backups, rm_done, faults>>

\* os.remove(f): the file is gone, or OSError and it stays; a directory
\* always stays.
os_remove(d, f, ok) == IF ok /\ isfile(f) THEN d \ {f} ELSE d

\* One iteration of "for f in for_removal".
RetentionRemove ==
    /\ pc = "retention" /\ rpc = "remove"
    /\ \E f \in for_removal \ rm_done, ok \in BOOLEAN :
         /\ ~ok => faults < MaxFaults
         /\ dir' = os_remove(dir, f, ok)
         /\ others' = os_remove(others, f, ok)
         /\ rm_done' = rm_done \cup {f}
         /\ faults' = IF ok THEN faults ELSE faults + 1
         /\ logs' = IF ok THEN logs ELSE logs \cup {"error: removal failed"}
    /\ UNCHANGED <<cfgVars, answers, log_path, retention_calls, space_ok, ctlVars, locVars, hvVars, dirExists, bak,
                   ops, failPoint, rpc, rret, backups, todo, for_removal, kept_backups>>

\* The removal loop is over; the function returns.
RetentionDone ==
    /\ pc = "retention" /\ rpc = "remove" /\ for_removal \subseteq rm_done
    /\ RetentionReturns
    /\ UNCHANGED <<cfgVars, answers, log_path, retention_calls, space_ok, exitCode, interrupted, intAt, locVars, hvVars, fsVars,
                   histVars, faults>>

----------------------------------------------------------------------------
\* The run: state at process start.

ImagesDir == "images"
LOG_DIR == "/var/log/virsh"
\* log_filename = f"{domain_name}-{timestamp}.log"
log_filename == <<DomainName, "-", Timestamp, ".log">>
\* No FileHandler has been added to the logger.
NoLog == Path("", <<>>)
LogicalSnapshotName == <<DomainName, "_snapshot_", Timestamp>>

\* What a disk of the domain may be backed by when the run begins: its base
\* image, an overlay a crashed earlier run of this script left behind, an
\* overlay made by other tooling, or (vdb) no source file at all.
InitialSources(dev) ==
    {Path(ImagesDir, BaseName(dev)),
     Path(ImagesDir, snap_filename(DomainName, dev, "T0")),
     IF dev = "vda" THEN Path(ImagesDir, ForeignOverlay(dev)) ELSE NoFile}

\* The --disk lists of the runs: one disk, two disks, a disk that may have
\* no source file, a device the domain does not have.
Requests == {{"vda"}, {"vdb"}, {"vda", "vdb"}, {"vda", "vdc"}}

Variants == {"hotbkp", "live", "virsh"}
Modes == {"libvirt", "snapshot"}

\* The positions of the main thread before run_backup is called.
MainPcs == {"args", "logging", "confirm1", "confirm2"}

\* choices=['libvirt', 'snapshot'] of --mode; virsh.py has no --mode.
choices == {"libvirt", "snapshot"}

\* What may be given to --mode on the command line.
ModeArgs == choices \cup {"unknown"}

\* What the user may type at a confirmation prompt.
Answers == {"y", " Y ", "yes", ""}

\* input(...).strip().lower()
strip_lower(a) == IF a = " Y " THEN "y" ELSE a

\* A prompt that takes whatever is typed for a confirmation.
accepts_anything(a) == TRUE

\* confirm == 'y'
confirmed(a) == strip_lower(a) = "y"

\* setup_logging: the path of the FileHandler, NoLog when os.makedirs or
\* logging.FileHandler raises.
setup_logging(ok) == IF ok THEN Path(LOG_DIR, log_filename) ELSE NoLog

\* Earlier artifacts a run of Spec may find: a recent one, an old one.
RunArtifacts == {[dev |-> "vda", mtime |-> Now - 1], [dev |-> "vda", mtime |-> 0]}

\* The number of confirmation prompts of the snapshot mode.
Prompts == IF variant = "hotbkp" THEN 2 ELSE 1

\* The answers a run that has reached run_backup was given: 'y' at every
\* prompt of the snapshot mode, no prompt otherwise.
AnswersGiven ==
    IF variant # "virsh" /\ mode = "snapshot"
    THEN [i \in 1..Prompts |-> "y"] ELSE <<>>

InitLocals ==
    /\ exitCode = NoExit
    /\ answers = AnswersGiven
    /\ interrupted = FALSE
    /\ intAt = None
    /\ disk_details = <<>>
    /\ backup_files_map = {} /\ snapshot_files_map = {}
    /\ backup_started = FALSE /\ snapshot_created = FALSE
    /\ quiesce_success = FALSE /\ agent_available = FALSE
    /\ attempt = 0 /\ idx = 1
    /\ errKind = None
    /\ space_ok = "unchecked"
    /\ log_dir_ok = TRUE
    /\ log_path = IF variant = "virsh" THEN NoLog ELSE Path(LOG_DIR, log_filename)
    /\ hvJobResult = None
    /\ bak = [d \in DomainDevs |-> "absent"]
    /\ backups = <<>> /\ todo = {}
    /\ for_removal = {} /\ kept_backups = {} /\ rm_done = {}
    /\ ops = <<>>
    /\ failPoint = NoFail
    /\ logs = {}

Init ==
    /\ variant \in Variants
    /\ mode \in IF variant = "virsh" THEN {"libvirt"} ELSE Modes
    /\ targets \in Requests
    /\ retention_days = IF variant = "virsh" THEN BACKUP_RETENTION_DAYS ELSE 2
    /\ diskSrc \in [DomainDevs -> UNION {InitialSources(d) : d \in DomainDevs}]
    /\ \A d \in DomainDevs : diskSrc[d] \in InitialSources(d)
    /\ diskBase = [d \in DomainDevs |-> Path(ImagesDir, BaseName(d))]
    /\ hvJob \in {"none", "prior"}
    /\ snapMeta \in {{}, {<<"old">>}}
    /\ agentUp \in BOOLEAN
    /\ dir \in SUBSET RunArtifacts
    /\ dirExists \in IF dir = {} THEN BOOLEAN ELSE {TRUE}
    /\ dir0 = dir
    /\ others = {} /\ others0 = others
    /\ disk_size = [d \in DomainDevs |-> IF d = "vda" THEN 10 ELSE 5]
    /\ free_bytes \in {5, 20}
    /\ faults = 0
    /\ InitLocals
    /\ retention_calls = 0
    /\ conn = FALSE /\ domOk = FALSE
    /\ pc = "connect"
    /\ rpc = "idle" /\ rret = "idle"

\* manage_retention alone, called on a backup directory of up to MaxFiles
\* artifacts; no OS error is injected.
InitRetention ==
    /\ variant \in Variants
    /\ mode = "libvirt"
    /\ targets = {"vda"}
    /\ retention_days \in IF variant = "virsh" THEN {BACKUP_RETENTION_DAYS} ELSE {1, 2}
    /\ diskSrc = [d \in DomainDevs |-> Path(ImagesDir, BaseName(d))]
    /\ diskBase = diskSrc
    /\ hvJob = "none"
    /\ snapMeta = {}
    /\ agentUp = TRUE
    /\ dir \in SUBSET Artifacts
    /\ Cardinality(dir) <= MaxFiles
    /\ others \in {{}, OtherEntries} /\ others0 = others
    /\ dirExists \in IF dir = {} /\ others = {} THEN BOOLEAN ELSE {TRUE}
    /\ dir0 = dir
    /\ disk_size = [d \in DomainDevs |-> IF d = "vda" THEN 10 ELSE 5]
    /\ free_bytes = 20
    /\ faults = MaxFaults
    /\ InitLocals
    /\ retention_calls = 0
    /\ conn = FALSE /\ domOk = FALSE
    /\ pc = "retention"
    /\ rpc = "start" /\ rret = "returned"

\* The whole script, from the parsing of the command line.
InitMain ==
    /\ variant \in Variants
    /\ mode \in IF variant = "virsh" THEN {"libvirt"} ELSE ModeArgs
    /\ targets \in {{"vda"}, {"vda", "vdb"}}
    /\ retention_days = IF variant = "virsh" THEN BACKUP_RETENTION_DAYS ELSE 2
    /\ diskSrc = [d \in DomainDevs |-> Path(ImagesDir, BaseName(d))]
    /\ diskBase = diskSrc
    /\ hvJob \in {"none", "prior"}
    /\ snapMeta = {}
    /\ agentUp \in BOOLEAN
    /\ dir \in SUBSET RunArtifacts
    /\ dirExists = TRUE
    /\ dir0 = dir
    /\ others = {} /\ others0 = others
    /\ disk_size = [d \in DomainDevs |-> IF d = "vda" THEN 10 ELSE 5]
    /\ free_bytes \in {5, 20}
    /\ faults = 0
    /\ exitCode = NoExit
    /\ answers = <<>>
    /\ interrupted = FALSE
    /\ intAt = None
    /\ disk_details = <<>>
    /\ backup_files_map = {} /\ snapshot_files_map = {}
    /\ backup_started = FALSE /\ snapshot_created = FALSE
    /\ quiesce_success = FALSE /\ agent_available = FALSE
    /\ attempt = 0 /\ idx = 1
    /\ errKind = None
    /\ space_ok = "unchecked"
    /\ retention_calls = 0
    /\ log_dir_ok \in BOOLEAN
    /\ log_path = NoLog
    /\ hvJobResult = None
    /\ bak = [d \in DomainDevs |-> "absent"]
    /\ backups = <<>> /\ todo = {}
    /\ for_removal = {} /\ kept_backups = {} /\ rm_done = {}
    /\ ops = <<>>
    /\ failPoint = NoFail
    /\ logs = {}
    /\ conn = FALSE /\ domOk = FALSE
    /\ pc = "args"
    /\ rpc = "idle" /\ rret = "idle"

\* The native strategy from the submission of the job: the disks are
\* resolved, the backup XML is built.  virsh.py has no job check, so a job
\* may still hold the domain.
InitWait ==
    /\ variant \in Variants
    /\ mode = "libvirt"
    /\ targets \in {{"vda"}, {"vda", "vdb"}}
    /\ retention_days = IF variant = "virsh" THEN BACKUP_RETENTION_DAYS ELSE 2
    /\ diskSrc = [d \in DomainDevs |-> Path(ImagesDir, BaseName(d))]
    /\ diskBase = diskSrc
    /\ hvJob \in IF variant = "virsh" THEN {"none", "prior"} ELSE {"none"}
    /\ snapMeta = {}
    /\ agentUp \in BOOLEAN
    /\ dir \in SUBSET {[dev |-> "vda", mtime |-> Now - 1]}
    /\ dirExists = TRUE /\ dir0 = dir
    /\ others = {} /\ others0 = others
    /\ disk_size = [d \in DomainDevs |-> IF d = "vda" THEN 10 ELSE 5]
    /\ free_bytes = 20
    /\ faults = 0
    /\ exitCode = NoExit
    /\ answers = AnswersGiven
    /\ interrupted = FALSE
    /\ intAt = None
    /\ disk_details = [d \in targets |-> diskSrc[d]]
    /\ backup_files_map = targets /\ snapshot_files_map = {}
    /\ backup_started = FALSE /\ snapshot_created = FALSE
    /\ quiesce_success = FALSE /\ agent_available = FALSE
    /\ attempt = 0 /\ idx = 1
    /\ errKind = None
    /\ space_ok = "ok"
    /\ retention_calls = 1
    /\ log_dir_ok = TRUE
    /\ log_path = IF variant = "virsh" THEN NoLog ELSE Path(LOG_DIR, log_filename)
    /\ hvJobResult = None
    /\ bak = [d \in DomainDevs |-> "absent"]
    /\ backups = <<>> /\ todo = {}
    /\ for_removal = {} /\ kept_backups = {} /\ rm_done = {}
    /\ ops = <<>>
    /\ failPoint = NoFail
    /\ logs = {}
    /\ conn = TRUE /\ domOk = TRUE
    /\ pc = "a_begin"
    /\ rpc = "idle" /\ rret = "idle"

\* The resolution of the disks and the checks up to check_available_space,
\* for every size of the source files and every free space of the
\* destination; no OS error is injected.
InitSpace ==
    /\ variant \in Variants
    /\ mode = "libvirt"
    /\ targets \in {{"vda"}, {"vda", "vdb"}}
    /\ retention_days = IF variant = "virsh" THEN BACKUP_RETENTION_DAYS ELSE 2
    /\ diskSrc = [d \in DomainDevs |-> Path(ImagesDir, BaseName(d))]
    /\ diskBase = diskSrc
    /\ hvJob = "none"
    /\ snapMeta = {}
    /\ agentUp = TRUE
    /\ dir = {} /\ dirExists = TRUE /\ dir0 = dir
    /\ others = {} /\ others0 = others
    /\ disk_size \in [DomainDevs -> 0..MaxSize]
    /\ free_bytes \in 0..MaxFree
    /\ faults = MaxFaults
    /\ InitLocals
    /\ retention_calls = IF variant = "hotbkp" THEN 0 ELSE 1
    /\ conn = TRUE /\ domOk = TRUE
    /\ pc = "disks"
    /\ rpc = "idle" /\ rret = "idle"

----------------------------------------------------------------------------
\* run_backup: pre-flight.

\* An entry of ops: the operation, its device and how it ended.
Op(o, d, r) == [op |-> o, dev |-> d, res |-> r]
NoDev == "-"
Res(ok) == IF ok THEN "ok" ELSE "fail"

\* The position in ops of the first failure or interrupt of the run.
FailAt(newops) == IF failPoint = NoFail THEN Len(newops) ELSE failPoint

\* The stages of run_backup before a strategy starts, per script.
Stages ==
    IF variant = "hotbkp"
    THEN <<"connect", "lookup", "jobcheck", "mkdir", "disks", "cleancheck", "space", "route">>
    ELSE IF variant = "live"
    THEN <<"connect", "lookup", "jobcheck", "retention", "mkdir", "disks", "cleancheck",
           "space", "route">>
    ELSE <<"connect", "lookup", "mkdir", "retention", "disks", "space", "a_build">>

After(stage) ==
    LET i == CHOOSE j \in 1..Len(Stages) : Stages[j] = stage
    IN  Stages[i + 1]

\* Control moves to a stage; entering "retention" calls manage_retention.
Goto(stage) ==
    IF stage = "retention"
    THEN pc' = "retention" /\ rpc' = "start" /\ rret' = After("retention")
    ELSE pc' = stage /\ UNCHANGED <<rpc, rret>>

RetLocalsUnchanged == UNCHANGED <<backups, todo, for_removal, kept_backups, rm_done, faults>>

\* sys.exit(code), or an exception that reaches "except Exception" of
\* run_backup: the finally clause closes the connection, the process ends.
Exits(code) ==
    /\ pc' = "done"
    /\ exitCode' = code
    /\ conn' = FALSE
    /\ UNCHANGED <<rpc, rret>>

\* libvirt.open(CONNECT_URI)
Connect ==
    /\ pc = "connect"
    /\ \E ok \in BOOLEAN :
         IF ok
         THEN /\ conn' = TRUE
              /\ Goto(After("connect"))
              /\ UNCHANGED <<exitCode, failPoint>>
         ELSE /\ Exits(1)
              /\ failPoint' = FailAt(ops)
    /\ UNCHANGED <<cfgVars, answers, log_path, retention_calls, space_ok, interrupted, intAt, domOk, mapVars, flagVars, hvVars, fsVars,
                   ops, logs>>
    /\ RetLocalsUnchanged

\* conn.lookupByName(domain_name)
Lookup ==
    /\ pc = "lookup"
    /\ \E found \in BOOLEAN :
         IF found
         THEN /\ domOk' = TRUE
              /\ Goto(After("lookup"))
              /\ UNCHANGED <<exitCode, conn, failPoint, logs>>
         ELSE /\ Exits(1)
              /\ failPoint' = FailAt(ops)
              /\ logs' = logs \cup {"error: domain not found"}
              /\ UNCHANGED domOk
    /\ UNCHANGED <<cfgVars, answers, log_path, retention_calls, space_ok, interrupted, intAt, mapVars, flagVars, hvVars, fsVars, ops>>
    /\ RetLocalsUnchanged

\* dom.jobInfo() before the backup: is a job already running?
JobCheck ==
    /\ pc = "jobcheck"
    /\ \E queryOk \in BOOLEAN :
         IF ~queryOk
         THEN /\ Exits(1)
              /\ failPoint' = FailAt(ops)
         ELSE /\ IF hvJob # "none"
                 THEN pc' = "preabort" /\ UNCHANGED <<rpc, rret>>
                 ELSE Goto(After("jobcheck"))
              /\ UNCHANGED <<exitCode, conn, failPoint>>
    /\ UNCHANGED <<cfgVars, answers, log_path, retention_calls, space_ok, interrupted, intAt, domOk, mapVars, flagVars, hvVars, fsVars,
                   ops, logs>>
    /\ RetLocalsUnchanged

\* What "virsh domjobabort" leaves of the hypervisor job: on success the job
\* is cancelled, at once or a little later.
domjobabort(job, ok, atOnce) == IF ok /\ atOnce THEN "none" ELSE job

\* A handler that lets the run go on after a failed abort.
abort_ignored(ok) == FALSE

\* subprocess.run(..., check=True) raises when the abort fails, and the
\* handler of that exception calls sys.exit(1).
abort_ends_run(ok) == ~ok

\* The job found before the backup is aborted; a failing abort ends the run.
PreAbort ==
    /\ pc = "preabort"
    /\ \E ok \in BOOLEAN, atOnce \in BOOLEAN :
         /\ ops' = Append(ops, Op("domjobabort", NoDev, Res(ok)))
         /\ hvJob' = domjobabort(hvJob, ok, atOnce)
         /\ IF ~abort_ends_run(ok)
            THEN /\ Goto(After("jobcheck"))
                 /\ UNCHANGED <<exitCode, conn, failPoint>>
            ELSE /\ Exits(1)
                 /\ failPoint' = FailAt(ops')
    /\ UNCHANGED <<cfgVars, answers, log_path, retention_calls, space_ok, interrupted, intAt, domOk, mapVars, flagVars, diskSrc, diskBase,
                   hvJobResult, snapMeta, agentUp, fsVars, logs>>
    /\ RetLocalsUnchanged

\* os.makedirs(backup_dir, exist_ok=True)
MakeDirs ==
    /\ pc = "mkdir"
    /\ dirExists' = TRUE
    /\ Goto(After("mkdir"))
    /\ UNCHANGED <<cfgVars, answers, log_path, retention_calls, space_ok, exitCode, interrupted, intAt, locVars, hvVars, dir, others, bak, histVars>>
    /\ RetLocalsUnchanged

\* The requested devices the descriptor resolves to a source file.
Resolved(target_set) == {d \in DomainDevs \cap target_set : diskSrc[d] # NoFile}

\* A final test that finds nothing left to resolve.
nothing_left(target_set) == {}

\* target_set after the loop over the disks of the descriptor: the requested
\* devices that were not found, or were found without a source file.
left_in_target_set(target_set) == target_set \ Resolved(target_set)

\* get_disk_details_from_xml: the details of every requested device, or None
\* (ok = FALSE) when the descriptor cannot be parsed or a device is left in
\* target_set.
get_disk_details_from_xml(target_set, xmlOk) ==
    IF ~xmlOk \/ left_in_target_set(target_set) # {}
    THEN [ok |-> FALSE, details |-> <<>>]
    ELSE [ok |-> TRUE, details |-> [d \in Resolved(target_set) |-> diskSrc[d]]]

DiskDetails ==
    /\ pc = "disks"
    /\ \E xmlOk \in BOOLEAN :
         LET r == get_disk_details_from_xml(targets, xmlOk)
         IN  IF r.ok
             THEN /\ disk_details' = r.details
                  /\ Goto(After("disks"))
                  /\ UNCHANGED <<exitCode, conn, failPoint, logs>>
             ELSE /\ Exits(1)
                  /\ failPoint' = FailAt(ops)
                  /\ logs' = logs \cup {IF xmlOk THEN "error: disks not found"
                                        ELSE "error: descriptor not parsed"}
                  /\ UNCHANGED disk_details
    /\ UNCHANGED <<cfgVars, answers, log_path, retention_calls, space_ok, interrupted, intAt, domOk, backup_files_map,
                   snapshot_files_map, flagVars, hvVars, fsVars, ops>>
    /\ RetLocalsUnchanged

\* The devices of disk_details whose source is already a snapshot overlay.
disks_on_snapshot(details) == {d \in DOMAIN details : on_snapshot(details[d])}

CleanCheck ==
    /\ pc = "cleancheck"
    /\ IF disks_on_snapshot(disk_details) # {}
       THEN /\ Exits(1)
            /\ failPoint' = FailAt(ops)
            /\ logs' = logs \cup {"critical: disk already on a snapshot"}
       ELSE /\ Goto(After("cleancheck"))
            /\ UNCHANGED <<exitCode, conn, failPoint, logs>>
    /\ UNCHANGED <<cfgVars, answers, log_path, retention_calls, space_ok, interrupted, intAt, domOk, mapVars, flagVars, hvVars, fsVars, ops>>
    /\ RetLocalsUnchanged

\* total_size_needed: the sum of os.path.getsize over disk_details.
RECURSIVE total_size_needed(_, _)
total_size_needed(details, devs) ==
    IF devs = {} THEN 0
    ELSE LET d == CHOOSE x \in devs : TRUE
         IN  disk_size[d] + total_size_needed(details, devs \ {d})

RECURSIVE floor_log2(_)
floor_log2(n) == IF n < 2 THEN 0 ELSE 1 + floor_log2(n \div 2)

RECURSIVE pow2(_)
pow2(e) == IF e = 0 THEN 1 ELSE 2 * pow2(e - 1)

\* final_size_needed > available_space, where final_size_needed is the
\* binary64 product total * (1 + SAFETY_MARGIN_PERCENT).  The factor is the
\* double nearest to 1.1, which is 1.1 + 0.4 * 2^-52.  Away from the boundary
\* 11 * total = 10 * available the rounding cannot change the comparison.  On
\* it the exact product is available + 0.4 * total * 2^-52, and it rounds up
\* to the next double above available exactly when that excess is more than
\* half a unit in the last place of available, 2^(floor_log2(available) - 53)
\* (a tie rounds to the even mantissa, that of available).
final_size_exceeds(total, available) ==
    IF 11 * total # 10 * available
    THEN 11 * total > 10 * available
    ELSE total > 0 /\ 4 * total > 5 * pow2(floor_log2(available))

\* check_available_space(backup_dir, disk_details): "error" when getsize or
\* disk_usage raises OSError, and then the function returns False as well.
check_available_space(details, available, oserr) ==
    IF oserr THEN "error"
    ELSE IF final_size_exceeds(total_size_needed(details, DOMAIN details), available)
    THEN "insufficient"
    ELSE "ok"

SpaceCheck ==
    /\ pc = "space"
    /\ \E oserr \in BOOLEAN :
         /\ oserr => faults < MaxFaults
         /\ faults' = IF oserr THEN faults + 1 ELSE faults
         /\ space_ok' = check_available_space(disk_details, free_bytes, oserr)
    /\ IF space_ok' = "ok"
       THEN /\ Goto(After("space"))
            /\ UNCHANGED <<exitCode, conn, failPoint>>
       ELSE /\ Exits(1)
            /\ failPoint' = FailAt(ops)
    /\ UNCHANGED <<cfgVars, answers, log_path, retention_calls, interrupted, intAt, domOk, mapVars, flagVars, hvVars,
                   fsVars, ops, logs>>
    /\ UNCHANGED <<backups, todo, for_removal, kept_backups, rm_done>>

\* The mode router.  In hotbkp the native strategy begins with the retention.
Route ==
    /\ pc = "route"
    /\ IF mode = "libvirt"
       THEN IF variant = "hotbkp"
            THEN pc' = "retention" /\ rpc' = "start" /\ rret' = "a_build"
            ELSE pc' = "a_build" /\ UNCHANGED <<rpc, rret>>
       ELSE IF mode = "snapshot"
       THEN pc' = "b_prep" /\ UNCHANGED <<rpc, rret>>
       ELSE Exits(1)
    /\ IF mode \in {"libvirt", "snapshot"}
       THEN UNCHANGED <<exitCode, conn, failPoint, logs>>
       ELSE /\ failPoint' = FailAt(ops)
            /\ logs' = logs \cup {"error: unknown mode"}
    /\ UNCHANGED <<cfgVars, answers, log_path, retention_calls, space_ok, interrupted, intAt, domOk, mapVars, flagVars,
                   hvVars, fsVars, ops>>
    /\ RetLocalsUnchanged

----------------------------------------------------------------------------
\* Strategy A: run_backup_libvirt_api (and the body of run_backup in virsh.py).

\* disk_details.items(): the devices in the order of the descriptor.
DiskOrder == SelectSeq(DomainDisks, LAMBDA d : d \in DOMAIN disk_details)

\* A loop body that builds the XML entry of the disk without recording its
\* artifact path.
forget_backup_file(map, target_dev) == map

\* backup_files_map[target_dev] = backup_file_path
register_backup_file(map, target_dev) == map \cup {target_dev}

\* One iteration of the loop that builds the backup XML.
ABuild ==
    /\ pc = "a_build" /\ idx <= Len(DiskOrder)
    /\ backup_files_map' = register_backup_file(backup_files_map, DiskOrder[idx])
    /\ idx' = idx + 1
    /\ UNCHANGED <<cfgVars, answers, log_path, retention_calls, space_ok, ctlVars, connVars, disk_details, snapshot_files_map,
                   backup_started, snapshot_created, quiesce_success, agent_available,
                   attempt, errKind, hvVars, fsVars, retVars, histVars>>

ABuilt ==
    /\ pc = "a_build" /\ idx > Len(DiskOrder)
    /\ pc' = "a_begin"
    /\ idx' = 1
    /\ UNCHANGED <<cfgVars, answers, log_path, retention_calls, space_ok, exitCode, interrupted, intAt, connVars, mapVars,
                   backup_started, snapshot_created, quiesce_success, agent_available,
                   attempt, errKind, hvVars, fsVars, retVars, histVars>>

\* The two libvirtError cases the handler of hotbkp tells apart.
ErrKinds == {"cannot acquire state change lock", "other"}

\* dom.backupBegin(backup_xml, None, 0).  The hypervisor runs one job per
\* domain: the call fails while another job is active.  On success the
\* hypervisor creates the target files and the job runs on its own.
ABegin ==
    /\ pc = "a_begin"
    /\ \E ok \in BOOLEAN, kind \in ErrKinds :
         /\ ok => hvJob = "none"
         /\ ops' = Append(ops, Op("backupBegin", NoDev, Res(ok)))
         /\ IF ok
            THEN /\ hvJob' = "backup"
                 /\ bak' = [d \in DomainDevs |->
                              IF d \in DOMAIN disk_details THEN "partial" ELSE bak[d]]
                 /\ pc' = "a_started"
                 /\ UNCHANGED <<errKind, failPoint>>
            ELSE /\ errKind' = kind
                 /\ pc' = "a_err"
                 /\ failPoint' = FailAt(ops')
                 /\ UNCHANGED <<hvJob, bak>>
    /\ UNCHANGED <<cfgVars, answers, log_path, retention_calls, space_ok, exitCode, interrupted, intAt, connVars, mapVars,
                   backup_started, snapshot_created, quiesce_success, agent_available,
                   attempt, idx, diskSrc, diskBase, hvJobResult, snapMeta, agentUp,
                   dir, dirExists, others, retVars, logs>>

\* backup_started = True
AStarted ==
    /\ pc = "a_started"
    /\ backup_started' = TRUE
    /\ pc' = "a_poll"
    /\ UNCHANGED <<cfgVars, answers, log_path, retention_calls, space_ok, exitCode, interrupted, intAt, connVars, mapVars,
                   snapshot_created, quiesce_success, agent_available,
                   attempt, idx, errKind, hvVars, fsVars, retVars, histVars>>

\* The hypervisor's job ends on its own: the backup completes or fails (a
\* failed job leaves its partial target files or removes them), or the job
\* found before the backup goes away.
HvJobEnds ==
    /\ pc # "done"
    /\ hvJob # "none"
    /\ hvJob' = "none"
    /\ \E completed \in BOOLEAN, leaves \in {"partial", "absent"} :
         IF hvJob = "backup"
         THEN /\ hvJobResult' = IF completed THEN "completed" ELSE "failed"
              /\ bak' = [d \in DomainDevs |->
                           IF d \notin DOMAIN disk_details THEN bak[d]
                           ELSE IF completed THEN "complete" ELSE leaves]
         ELSE /\ completed /\ leaves = "partial"
              /\ UNCHANGED <<hvJobResult, bak>>
    /\ UNCHANGED <<cfgVars, answers, log_path, retention_calls, space_ok, ctlVars, locVars, diskSrc, diskBase, snapMeta, agentUp,
                   dir, dirExists, others, retVars, histVars>>

\* One tick of the wait loop: dom.jobInfo() raises, or reports no job (the
\* backup is reported as done and the run ends with status 0), or reports a
\* job and the loop sleeps.
\* A loop that is left whatever the job is doing (a wait that gives up).
leaves_anyway(job) == TRUE

\* job_type == libvirt.VIR_DOMAIN_JOB_NONE
job_type_none(job) == job = "none"

APollError ==
    /\ pc = "a_poll"
    /\ \E kind \in ErrKinds : errKind' = kind
    /\ pc' = "a_err"
    /\ failPoint' = FailAt(ops)
    /\ UNCHANGED <<cfgVars, answers, log_path, retention_calls, space_ok, exitCode, interrupted, intAt, connVars, mapVars,
                   backup_started, snapshot_created, quiesce_success, agent_available,
                   attempt, idx, hvVars, fsVars, retVars, ops, logs>>

APollDone ==
    /\ pc = "a_poll"
    /\ job_type_none(hvJob)
    /\ Exits(0)
    /\ logs' = logs \cup {"info: backup done"}
    /\ UNCHANGED <<cfgVars, answers, log_path, retention_calls, space_ok, interrupted, intAt, domOk, mapVars, flagVars, hvVars, fsVars,
                   ops, failPoint>>
    /\ RetLocalsUnchanged

APollWait ==
    /\ pc = "a_poll"
    /\ ~job_type_none(hvJob)
    /\ UNCHANGED vars

\* A libvirtError handler that only logs.
never_aborts(kind, started) == FALSE

\* Whether the libvirtError handler of the strategy asks for the job's abort.
aborts_on_error(kind, started) ==
    IF variant = "hotbkp"
    THEN kind # "cannot acquire state change lock" /\ started
    ELSE started

\* What an abort makes of this run's backup job and its target files.
AbortEffect(ok, atOnce, leaves) ==
    /\ hvJob' = domjobabort(hvJob, ok, atOnce)
    /\ IF hvJob = "backup" /\ hvJob' = "none"
       THEN /\ hvJobResult' = "aborted"
            /\ bak' = [d \in DomainDevs |->
                         IF d \in DOMAIN disk_details THEN leaves ELSE bak[d]]
       ELSE UNCHANGED <<hvJobResult, bak>>

\* except libvirt.libvirtError: the abort when it applies, then the error
\* goes up and the run ends with status 1.
AError ==
    /\ pc = "a_err"
    /\ IF aborts_on_error(errKind, backup_started)
       THEN \E ok \in BOOLEAN, atOnce \in BOOLEAN, leaves \in {"partial", "absent"} :
              /\ ok => hvJob # "none"
              /\ ops' = Append(ops, Op("domjobabort", NoDev, Res(ok)))
              /\ AbortEffect(ok, atOnce, leaves)
       ELSE UNCHANGED <<ops, hvJob, hvJobResult, bak>>
    /\ Exits(1)
    /\ UNCHANGED <<cfgVars, answers, log_path, retention_calls, space_ok, interrupted, intAt, domOk, mapVars, flagVars, diskSrc, diskBase,
                   snapMeta, agentUp, dir, dirExists, others, failPoint, logs>>
    /\ RetLocalsUnchanged

----------------------------------------------------------------------------
\* Strategy B: run_backup_snapshot_rsync.

\* snapshot_files_map[target_dev] = {'base': ..., 'snap': ..., 'bak': ...}
register_snapshot_files(map, target_dev) == map \cup {target_dev}

\* The overlay the --diskspec of a device names.
snap_path(target_dev) ==
    Path(dirname(disk_details[target_dev]),
         snap_filename(DomainName, target_dev, Timestamp))

\* One iteration of the loop that prepares the commands.
BPrep ==
    /\ pc = "b_prep" /\ idx <= Len(DiskOrder)
    /\ snapshot_files_map' = register_snapshot_files(snapshot_files_map, DiskOrder[idx])
    /\ idx' = idx + 1
    /\ UNCHANGED <<cfgVars, answers, log_path, retention_calls, space_ok, ctlVars, connVars, disk_details, backup_files_map,
                   backup_started, snapshot_created, quiesce_success, agent_available,
                   attempt, errKind, hvVars, fsVars, retVars, histVars>>

BPrepared ==
    /\ pc = "b_prep" /\ idx > Len(DiskOrder)
    /\ pc' = IF variant = "live" THEN "b_agent" ELSE "b_snapq"
    /\ idx' = 1
    /\ UNCHANGED <<cfgVars, answers, log_path, retention_calls, space_ok, exitCode, interrupted, intAt, connVars, mapVars,
                   backup_started, snapshot_created, quiesce_success, agent_available,
                   attempt, errKind, hvVars, fsVars, retVars, histVars>>

\* live: check_agent_availability(dom), a guest-ping.
BAgent ==
    /\ pc = "b_agent"
    /\ agent_available' = agentUp
    /\ logs' = logs \cup {IF agentUp THEN "info: agent answers"
                          ELSE "warning: agent does not answer"}
    /\ pc' = IF agentUp THEN "b_snapq" ELSE "b_snapnq"
    /\ UNCHANGED <<cfgVars, answers, log_path, retention_calls, space_ok, exitCode, interrupted, intAt, connVars, mapVars,
                   backup_started, snapshot_created, quiesce_success,
                   attempt, idx, errKind, hvVars, fsVars, retVars, ops, failPoint>>

\* What a successful "virsh snapshot-create-as --disk-only --atomic" does:
\* every device named by a --diskspec now writes to its overlay and the
\* snapshot is registered under its logical name.  A failed one does nothing.
SnapshotEffect(ok) ==
    IF ok
    THEN /\ diskSrc' = [d \in DomainDevs |->
                          IF d \in DOMAIN disk_details THEN snap_path(d) ELSE diskSrc[d]]
         /\ snapMeta' = snapMeta \cup {LogicalSnapshotName}
    ELSE UNCHANGED <<diskSrc, snapMeta>>

\* The snapshot can be created only while no job holds the domain; a
\* quiesced one also needs the guest agent.
SnapshotPossible(quiesce) == hvJob = "none" /\ (quiesce => agentUp)

\* A loop that goes round once more than range(max_quiesce_attempts).
retries_once_more(a) == a < max_quiesce_attempts

\* Whether the loop "for attempt in range(max_quiesce_attempts)" has another
\* iteration after the failed attempt a (counted from 0).
retries_after(a) == a < max_quiesce_attempts - 1

\* One attempt with --quiesce; a failed attempt sleeps and retries, the last
\* failed attempt falls through to the attempt without --quiesce.
BSnapQuiesce ==
    /\ pc = "b_snapq"
    /\ \E ok \in BOOLEAN :
         /\ ok => SnapshotPossible(TRUE)
         /\ ops' = Append(ops, Op("snapshot-create-as --quiesce", NoDev, Res(ok)))
         /\ SnapshotEffect(ok)
         /\ IF ok
            THEN pc' = "b_snapq_ok" /\ UNCHANGED attempt
            ELSE IF retries_after(attempt)
            THEN pc' = "b_snapq" /\ attempt' = attempt + 1
            ELSE pc' = "b_snapnq" /\ UNCHANGED attempt
    /\ UNCHANGED <<cfgVars, answers, log_path, retention_calls, space_ok, exitCode, interrupted, intAt, connVars, mapVars,
                   backup_started, snapshot_created, quiesce_success, agent_available,
                   idx, errKind, diskBase, hvJob, hvJobResult, agentUp, fsVars,
                   retVars, failPoint, logs>>

skips_no_test(qs) == TRUE

\* if not quiesce_success: the attempt without --quiesce is made only when
\* no attempt with --quiesce succeeded.
fallback_needed(qs) == ~qs

\* quiesce_success = True; snapshot_created = True; break
BSnapQuiesceOk ==
    /\ pc = "b_snapq_ok"
    /\ quiesce_success' = TRUE
    /\ snapshot_created' = TRUE
    /\ pc' = IF fallback_needed(quiesce_success') THEN "b_snapnq" ELSE "b_rsync"
    /\ UNCHANGED <<cfgVars, answers, log_path, retention_calls, space_ok, exitCode, interrupted, intAt, connVars, mapVars,
                   backup_started, agent_available, attempt, idx, errKind,
                   hvVars, fsVars, retVars, histVars>>

\* The level at which the fallback to a snapshot without --quiesce is logged.
no_quiesce_log ==
    IF variant = "hotbkp" \/ agent_available
    THEN "warning: snapshot without quiesce"
    ELSE "info: snapshot without quiesce"

\* The attempt without --quiesce; its failure is the failure of the run.
BSnapNoQuiesce ==
    /\ pc = "b_snapnq"
    /\ logs' = logs \cup {no_quiesce_log}
    /\ \E ok \in BOOLEAN :
         /\ ok => SnapshotPossible(FALSE)
         /\ ops' = Append(ops, Op("snapshot-create-as", NoDev, Res(ok)))
         /\ SnapshotEffect(ok)
         /\ IF ok
            THEN pc' = "b_snapnq_ok" /\ UNCHANGED failPoint
            ELSE pc' = "b_fail" /\ failPoint' = FailAt(ops')
    /\ UNCHANGED <<cfgVars, answers, log_path, retention_calls, space_ok, exitCode, interrupted, intAt, locVars, diskBase, hvJob,
                   hvJobResult, agentUp, fsVars, retVars>>

\* snapshot_created = True
BSnapNoQuiesceOk ==
    /\ pc = "b_snapnq_ok"
    /\ snapshot_created' = TRUE
    /\ pc' = "b_rsync"
    /\ UNCHANGED <<cfgVars, answers, log_path, retention_calls, space_ok, exitCode, interrupted, intAt, connVars, mapVars,
                   backup_started, quiesce_success, agent_available, attempt, idx,
                   errKind, hvVars, fsVars, retVars, histVars>>

\* run_subprocess(rsync ...) of the next disk: the child process starts.
BRsyncStart ==
    /\ pc = "b_rsync" /\ idx <= Len(DiskOrder)
    /\ ops' = Append(ops, Op("rsync", DiskOrder[idx], "running"))
    /\ pc' = "b_rsync_run"
    /\ UNCHANGED <<cfgVars, answers, log_path, retention_calls, space_ok, exitCode, interrupted, intAt, locVars, hvVars, fsVars, retVars,
                   failPoint, logs>>

\* What an rsync that did not finish leaves at its destination.
Leftovers == {"absent", "partial"}

\* A run_subprocess that returns whatever the exit status of the child.
returns_anyway(ok) == TRUE

\* run_subprocess returns when the child exited with status 0;
\* subprocess.run(check=True) raises CalledProcessError otherwise.
returns_normally(ok) == ok

\* The child ends: the artifact is complete, or rsync failed.
BRsyncEnds ==
    /\ pc = "b_rsync_run"
    /\ \E ok \in BOOLEAN, leaves \in Leftovers :
         /\ ops' = [ops EXCEPT ![Len(ops)].res = Res(ok)]
         /\ IF returns_normally(ok)
            THEN /\ leaves = "partial"
                 /\ bak' = [bak EXCEPT ![DiskOrder[idx]] = "complete"]
                 /\ idx' = idx + 1
                 /\ pc' = "b_rsync"
                 /\ UNCHANGED failPoint
            ELSE /\ bak' = [bak EXCEPT ![DiskOrder[idx]] = leaves]
                 /\ pc' = "b_fail"
                 /\ failPoint' = FailAt(ops)
                 /\ UNCHANGED idx
    /\ UNCHANGED <<cfgVars, answers, log_path, retention_calls, space_ok, exitCode, interrupted, intAt, connVars, mapVars,
                   backup_started, snapshot_created, quiesce_success, agent_available,
                   attempt, errKind, hvVars, dir, dirExists, others, retVars, logs>>

\* A copy loop that is left after its first copy.
left_after_first_copy(i) == i > 1

\* "for item in cmds_rsync" is over: every disk has been copied.
copy_loop_over(i) == i > Len(DiskOrder)

BRsyncDone ==
    /\ pc = "b_rsync" /\ copy_loop_over(idx)
    /\ pc' = "b_commit"
    /\ idx' = 1
    /\ UNCHANGED <<cfgVars, answers, log_path, retention_calls, space_ok, exitCode, interrupted, intAt, connVars, mapVars,
                   backup_started, snapshot_created, quiesce_success, agent_available,
                   attempt, errKind, hvVars, fsVars, retVars, histVars>>

\* A blockcommit that leaves the device on its overlay.
no_pivot(src, target_dev, ok) == src

\* "virsh blockcommit --active --pivot": the overlay is merged into the base
\* image and the device writes to the base image again.
blockcommit_pivot(src, target_dev, ok) ==
    IF ok THEN [src EXCEPT ![target_dev] = diskBase[target_dev]] ELSE src

BCommit ==
    /\ pc = "b_commit" /\ idx <= Len(DiskOrder)
    /\ \E ok \in BOOLEAN :
         /\ ops' = Append(ops, Op("blockcommit", DiskOrder[idx], Res(ok)))
         /\ diskSrc' = blockcommit_pivot(diskSrc, DiskOrder[idx], ok)
         /\ IF ok
            THEN idx' = idx + 1 /\ UNCHANGED <<pc, failPoint>>
            ELSE pc' = "b_fail" /\ failPoint' = FailAt(ops') /\ UNCHANGED idx
    /\ UNCHANGED <<cfgVars, answers, log_path, retention_calls, space_ok, exitCode, interrupted, intAt, connVars, mapVars,
                   backup_started, snapshot_created, quiesce_success, agent_available,
                   attempt, errKind, diskBase, hvJob, hvJobResult, snapMeta, agentUp,
                   fsVars, retVars, logs>>

BCommitDone ==
    /\ pc = "b_commit" /\ idx > Len(DiskOrder)
    /\ pc' = "b_snapdel"
    /\ idx' = 1
    /\ UNCHANGED <<cfgVars, answers, log_path, retention_calls, space_ok, exitCode, interrupted, intAt, connVars, mapVars,
                   backup_started, snapshot_created, quiesce_success, agent_available,
                   attempt, errKind, hvVars, fsVars, retVars, histVars>>

\* "virsh snapshot-delete --metadata"; on success the run ends with status 0.
BSnapDelete ==
    /\ pc = "b_snapdel"
    /\ \E ok \in BOOLEAN :
         /\ ops' = Append(ops, Op("snapshot-delete --metadata", NoDev, Res(ok)))
         /\ IF ok
            THEN /\ snapMeta' = snapMeta \ {LogicalSnapshotName}
                 /\ Exits(0)
                 /\ logs' = logs \cup {"info: backup done"}
                 /\ UNCHANGED failPoint
            ELSE /\ pc' = "b_fail"
                 /\ failPoint' = FailAt(ops')
                 /\ UNCHANGED <<snapMeta, exitCode, conn, rpc, rret, logs>>
    /\ UNCHANGED <<cfgVars, answers, log_path, retention_calls, space_ok, interrupted, intAt, domOk, mapVars, flagVars, diskSrc, diskBase,
                   hvJob, hvJobResult, agentUp, fsVars>>
    /\ RetLocalsUnchanged

\* except Exception: the state of the domain is logged; hotbkp then removes
\* the artifacts of the run, live leaves at once.  The error goes up to
\* run_backup and the run ends with status 1.
\* A handler that reports every failure as one before the snapshot.
reports_no_snapshot(created) == "warning: failed before the snapshot"

\* What the handler logs about the state of the domain.
failure_report(created) ==
    IF created
    THEN "critical: the domain may run on the snapshot"
    ELSE "warning: failed before the snapshot"

BFail ==
    /\ pc = "b_fail"
    /\ logs' = logs \cup {failure_report(snapshot_created)}
    /\ IF variant = "hotbkp"
       THEN pc' = "b_rm" /\ idx' = 1 /\ UNCHANGED <<exitCode, conn, rpc, rret>>
       ELSE Exits(1) /\ UNCHANGED idx
    /\ UNCHANGED <<cfgVars, answers, log_path, retention_calls, space_ok, interrupted, intAt, domOk, mapVars,
                   backup_started, snapshot_created, quiesce_success, agent_available,
                   attempt, errKind, hvVars, fsVars, ops, failPoint>>
    /\ RetLocalsUnchanged

\* snapshot_files_map.items()
SnapshotOrder == SelectSeq(DomainDisks, LAMBDA d : d \in snapshot_files_map)

\* if os.path.exists(bak): os.remove(bak), which may fail with OSError.
remove_partial(b, target_dev, ok) ==
    IF b[target_dev] # "absent" /\ ok THEN [b EXCEPT ![target_dev] = "absent"] ELSE b

\* The position the removal loop goes to after the entry at i; an OSError of
\* os.remove is caught inside the loop, so it is the next entry either way.
next_to_remove(i) == i + 1

\* hotbkp: one iteration of the loop that removes the artifacts of the run.
BRemove ==
    /\ pc = "b_rm" /\ idx <= Len(SnapshotOrder)
    /\ \E ok \in BOOLEAN :
         /\ bak[SnapshotOrder[idx]] = "absent" => ok
         /\ bak' = remove_partial(bak, SnapshotOrder[idx], ok)
         /\ ops' = IF bak[SnapshotOrder[idx]] # "absent"
                   THEN Append(ops, Op("os.remove", SnapshotOrder[idx], Res(ok)))
                   ELSE ops
    /\ idx' = next_to_remove(idx)
    /\ UNCHANGED <<cfgVars, answers, log_path, retention_calls, space_ok, ctlVars, connVars, mapVars,
                   backup_started, snapshot_created, quiesce_success, agent_available,
                   attempt, errKind, hvVars, dir, dirExists, others, retVars,
                   failPoint, logs>>

BRemoveDone ==
    /\ pc = "b_rm" /\ idx > Len(SnapshotOrder)
    /\ Exits(1)
    /\ UNCHANGED <<cfgVars, answers, log_path, retention_calls, space_ok, interrupted, intAt, domOk, mapVars, flagVars, hvVars, fsVars,
                   histVars>>
    /\ RetLocalsUnchanged

----------------------------------------------------------------------------
\* The script body under "if __name__ == '__main__'".

\* parser.parse_args(): a --mode outside choices is a usage error, status 2.
ParseArgs ==
    /\ pc = "args"
    /\ IF mode \in choices
       THEN /\ pc' = IF variant = "virsh" THEN "connect" ELSE "logging"
            /\ UNCHANGED <<exitCode, conn, rpc, rret>>
       ELSE Exits(2)
    /\ UNCHANGED <<cfgVars, answers, log_path, retention_calls, space_ok, interrupted, intAt, domOk, mapVars, flagVars,
                   hvVars, fsVars, histVars>>
    /\ RetLocalsUnchanged

\* setup_logging(args.domain, timestamp): sys.exit(1) when the log file
\* cannot be opened.
SetupLogging ==
    /\ pc = "logging"
    /\ log_path' = setup_logging(log_dir_ok)
    /\ IF log_path' # NoLog
       THEN /\ pc' = IF mode = "snapshot" THEN "confirm1" ELSE "connect"
            /\ UNCHANGED <<exitCode, conn, rpc, rret>>
       ELSE Exits(1)
    /\ UNCHANGED <<cfgVars, answers, retention_calls, space_ok, interrupted, intAt, domOk, mapVars, flagVars,
                   hvVars, fsVars, histVars>>
    /\ RetLocalsUnchanged

\* The confirmation of the snapshot mode: two prompts in hotbkp, one in live.
Confirm ==
    /\ pc \in {"confirm1", "confirm2"}
    /\ \E a \in Answers :
         /\ answers' = Append(answers, a)
         /\ IF confirmed(a)
            THEN /\ pc' = IF variant = "hotbkp" /\ pc = "confirm1"
                          THEN "confirm2" ELSE "connect"
                 /\ UNCHANGED <<exitCode, conn, rpc, rret>>
            ELSE Exits(1)
    /\ UNCHANGED <<cfgVars, log_path, retention_calls, space_ok, interrupted, intAt, domOk, mapVars, flagVars,
                   hvVars, fsVars, histVars>>
    /\ RetLocalsUnchanged

----------------------------------------------------------------------------
\* Ctrl+C.

\* An except clause that catches the KeyboardInterrupt where it is raised.
caught_where_raised(p) == p

\* Where a KeyboardInterrupt raised at p lands: no except Exception clause
\* on the way catches it, so it reaches the handler of run_backup (hotbkp,
\* live) or leaves the process (virsh.py).
raised_to(p) == IF variant = "virsh" \/ p \in MainPcs THEN "done" ELSE "kbd"

\* A KeyboardInterrupt is raised in the main thread.  hotbkp and live catch
\* it in run_backup; virsh.py does not, and the process ends with the status
\* of an interrupt.  A running rsync child is killed where it is.
Interrupt ==
    /\ pc \notin {"done", "kbd"}
    /\ ~interrupted
    /\ interrupted' = TRUE
    /\ intAt' = pc
    /\ failPoint' = FailAt(ops)
    /\ IF pc = "b_rsync_run"
       THEN /\ \E leaves \in Leftovers : bak' = [bak EXCEPT ![DiskOrder[idx]] = leaves]
            /\ ops' = [ops EXCEPT ![Len(ops)].res = "killed"]
       ELSE UNCHANGED <<bak, ops>>
    /\ pc' = raised_to(pc)
    /\ IF raised_to(pc) = "done"
       THEN exitCode' = 130 /\ conn' = FALSE
       ELSE UNCHANGED <<exitCode, conn>>
    /\ rpc' = "idle" /\ rret' = "idle"
    /\ backups' = <<>> /\ todo' = {}
    /\ for_removal' = {} /\ kept_backups' = {} /\ rm_done' = {}
    /\ UNCHANGED <<cfgVars, answers, log_path, retention_calls, space_ok, domOk, mapVars, flagVars, hvVars, dir, dirExists, others, faults,
                   logs>>

\* Whether the KeyboardInterrupt handler asks for the abort of the job.
aborts_on_interrupt == mode = "libvirt" /\ domOk

\* except KeyboardInterrupt of run_backup: the abort in the native mode, then
\* sys.exit(130).
KbdHandler ==
    /\ pc = "kbd"
    /\ IF aborts_on_interrupt
       THEN \E ok \in BOOLEAN, atOnce \in BOOLEAN, leaves \in Leftovers :
              /\ ok => hvJob # "none"
              /\ ops' = Append(ops, Op("domjobabort", NoDev, Res(ok)))
              /\ AbortEffect(ok, atOnce, leaves)
       ELSE UNCHANGED <<ops, hvJob, hvJobResult, bak>>
    /\ Exits(130)
    /\ UNCHANGED <<cfgVars, answers, log_path, retention_calls, space_ok, interrupted, intAt, domOk, mapVars, flagVars, diskSrc, diskBase,
                   snapMeta, agentUp, dir, dirExists, others, failPoint, logs>>
    /\ RetLocalsUnchanged

----------------------------------------------------------------------------

Next ==
    \/ Connect \/ Lookup \/ JobCheck \/ PreAbort \/ MakeDirs
    \/ DiskDetails \/ CleanCheck \/ SpaceCheck \/ Route
    \/ RetentionStart \/ RetentionCount \/ RetentionClassify
    \/ RetentionClassified \/ RetentionRemove \/ RetentionDone
    \/ ABuild \/ ABuilt \/ ABegin \/ AStarted
    \/ APollError \/ APollDone \/ APollWait \/ AError
    \/ BPrep \/ BPrepared \/ BAgent \/ BSnapQuiesce \/ BSnapQuiesceOk
    \/ BSnapNoQuiesce \/ BSnapNoQuiesceOk
    \/ BRsyncStart \/ BRsyncEnds \/ BRsyncDone
    \/ BCommit \/ BCommitDone \/ BSnapDelete
    \/ BFail \/ BRemove \/ BRemoveDone
    \/ HvJobEnds \/ Interrupt \/ KbdHandler

Spec == Init /\ [][Next]_vars

NextRetention ==
    \/ RetentionStart \/ RetentionCount \/ RetentionClassify
    \/ RetentionClassified \/ RetentionRemove \/ RetentionDone

SpecRetention == InitRetention /\ [][NextRetention]_vars

NextMain == ParseArgs \/ SetupLogging \/ Confirm \/ Next
SpecMain == InitMain /\ [][NextMain]_vars

\* The steps of the main thread in the native strategy and its handlers.
MainThreadWait == ABegin \/ AStarted \/ APollDone \/ AError \/ KbdHandler
NextWait == MainThreadWait \/ APollError \/ APollWait \/ HvJobEnds \/ Interrupt
\* The main thread keeps running, and the job of the hypervisor ends.
FairWait == WF_vars(MainThreadWait) /\ WF_vars(HvJobEnds)
SpecWait == InitWait /\ [][NextWait]_vars /\ FairWait

NextSpace == DiskDetails \/ CleanCheck \/ SpaceCheck
SpecSpace == InitSpace /\ [][NextSpace]_vars

----------------------------------------------------------------------------
\* Properties of a run (Spec).

Done == pc = "done"
Failed == Done /\ exitCode # 0

\* The positions in ops of the requests of an operation, and of those that
\* succeeded.
Requests_of(o) == {i \in 1..Len(ops) : ops[i].op = o}
Succeeded(o) == {i \in Requests_of(o) : ops[i].res = "ok"}

SnapshotOps == {"snapshot-create-as --quiesce", "snapshot-create-as"}
SnapshotTaken == \E o \in SnapshotOps : Succeeded(o) # {}
JobSubmitted == Succeeded("backupBegin") # {}

\* An operation requested when the run failed or later.
RequestedInCleanup(o, d) ==
    \E j \in Requests_of(o) : j >= failPoint /\ ops[j].dev = d

\* C1: when the user interrupt arrives while rsync copies a disk, then at
\* exit no partial artifact of the run is left at the destination, and every
\* device of the job is back on the image it started on or on an overlay
\* whose name the clean-state check of the next run recognises.
C1_InterruptedCopyLeavesNoPartial ==
    (Done /\ intAt = "b_rsync_run") =>
        /\ \A d \in DOMAIN disk_details : bak[d] # "partial"
        /\ \A d \in DOMAIN disk_details :
             diskSrc[d] = disk_details[d] \/ on_snapshot(diskSrc[d])

\* C2: when a snapshot-mode run fails or is interrupted after its snapshot
\* was taken, a blockcommit with pivot is requested, from the failure on, for
\* every device that is still on the overlay of the run.
C2_CleanupPivotsEveryOverlay ==
    (Failed /\ mode = "snapshot" /\ SnapshotTaken) =>
        \A d \in DOMAIN disk_details :
            diskSrc[d] = snap_path(d) => RequestedInCleanup("blockcommit", d)

\* C3: when a run of either strategy ends with a status other than 0, no
\* artifact of that run, partial or complete, is left at the destination.
C3_FailedRunLeavesNoArtifact ==
    Failed => \A d \in DomainDevs : bak[d] = "absent"

\* C4, as stated: in the native mode of virsh-hotbkp.py and
\* kvm_backup_live.py, a run that ends by failure or interrupt after
\* backupBegin succeeded has requested domjobabort after it.
AbortRequestedAfterBegin ==
    \E i \in Succeeded("backupBegin") :
        \E j \in Requests_of("domjobabort") : j > i
EndsAfterSubmission ==
    /\ Failed
    /\ variant \in {"hotbkp", "live"}
    /\ mode = "libvirt"
    /\ JobSubmitted
LockErrorOfHotbkp ==
    /\ variant = "hotbkp"
    /\ ~interrupted
    /\ errKind = "cannot acquire state change lock"
C5_CleanupDeletesSnapshotMetadata ==
    (Failed /\ mode = "snapshot" /\ LogicalSnapshotName \in snapMeta) =>
        RequestedInCleanup("snapshot-delete --metadata", NoDev)

\* C6: in every reachable state, a snapshot of the run that exists is
\* recorded by snapshot_created and a backup job of the run that exists is
\* recorded by backup_started.
C6_FlagsRecordWhatExists ==
    /\ LogicalSnapshotName \in snapMeta => snapshot_created
    /\ hvJob = "backup" => backup_started

\* C7: in the native mode, once backupBegin has been requested the artifact
\* path of every requested disk is in backup_files_map, and while the job of
\* the run is active no path leaves the map.
C7_PathsRegisteredBeforeBegin ==
    /\ [](Requests_of("backupBegin") # {} =>
            /\ backup_files_map = DOMAIN disk_details
            /\ backup_files_map = targets)
    /\ [][hvJob = "backup" => backup_files_map \subseteq backup_files_map']_vars
C7_Witness ==
    /\ pc = "a_poll" /\ hvJob = "backup"
    /\ targets = {"vda", "vdb"}
    /\ backup_files_map = {"vda", "vdb"}

----------------------------------------------------------------------------
\* Properties of manage_retention alone (SpecRetention).

Returned == pc = "returned"
OlderThanCutoff(f) == f.mtime < Now - retention_days * UnitsPerDay
\* The calendar day of a modification time.
DayOf(t) == t \div UnitsPerDay
SameDayAndDevice(f) == {g \in dir0 : g.dev = f.dev /\ DayOf(g.mtime) = DayOf(f.mtime)}
NewestOf(S) == CHOOSE f \in S : \A g \in S : g.mtime <= f.mtime

\* C8: retention never empties a directory that held artifacts; when every
\* artifact is older than the cutoff, exactly one, a most recent one, stays.
C8_LastArtifactSurvives ==
    (Returned /\ dir0 # {}) =>
        /\ dir # {}
        /\ (\A f \in dir0 : OlderThanCutoff(f)) =>
               /\ Cardinality(dir) = 1
               /\ \A f \in dir : \A g \in dir0 : g.mtime <= f.mtime

\* C9: after retention, of every group of artifacts of one device written
\* on one calendar day that had more than one member, exactly the newest
\* member remains.
C9_OnePerDayAndDevice ==
    Returned =>
        \A f \in dir0 :
            Cardinality(SameDayAndDevice(f)) > 1 =>
                dir \cap SameDayAndDevice(f) = {NewestOf(SameDayAndDevice(f))}

\* Three artifacts of one device written on three consecutive days, the
\* oldest more than two days ago.
ThreeDays ==
    {[dev |-> "vda", mtime |-> Now - 1],
     [dev |-> "vda", mtime |-> Now - 1 - UnitsPerDay],
     [dev |-> "vda", mtime |-> Now - 1 - 2 * UnitsPerDay]}
ThreeDaysCase ==
    (Returned /\ retention_days = 2 /\ dir0 = ThreeDays) =>
        dir = ThreeDays \ {[dev |-> "vda", mtime |-> Now - 1 - 2 * UnitsPerDay]}

\* C10, as stated: of three artifacts of three consecutive days and two
\* retention days exactly the oldest is deleted, and an artifact that is not
\* older than the cutoff is never deleted.
C10_FreshNeverDeleted ==
    /\ ThreeDaysCase
    /\ \A f \in dir0 \ dir : OlderThanCutoff(f)

\* C10, amended: the same, except that virsh.py also deletes, whatever
\* their age, the oldest artifacts beyond BACKUP_RETENTION_COUNT - 1.
AmongOldestBeyondCount(f) ==
    /\ variant = "virsh"
    /\ Cardinality({g \in dir0 : g.mtime < f.mtime})
         < Cardinality(dir0) - (BACKUP_RETENTION_COUNT - 1)
C10_FreshDeletedOnlyByCount ==
    /\ ThreeDaysCase
    /\ \A f \in dir0 \ dir : OlderThanCutoff(f) \/ AmongOldestBeyondCount(f)
C10_Witness ==
    /\ Returned /\ retention_days = 2 /\ dir0 = ThreeDays
    /\ dir = {[dev |-> "vda", mtime |-> Now - 1],
              [dev |-> "vda", mtime |-> Now - 1 - UnitsPerDay]}

\* C11: when the backup directory is missing or holds no .bak file,
\* manage_retention marks and removes nothing, leaves every entry of the
\* directory as it was and returns at once, without an error.
C11_NoArtifactsNoOp ==
    dir0 = {} =>
        /\ dir = {} /\ others = others0
        /\ for_removal = {} /\ rm_done = {}
        /\ exitCode = NoExit
        /\ rpc # "start" => Returned
C11_Witness ==
    /\ Returned /\ dirExists
    /\ dir0 = {} /\ others0 = OtherEntries
    /\ others = OtherEntries

\* C12: manage_retention removes nothing while it classifies: as long as a
\* listed file is unclassified, the directory is as it was at the start and
\* no removal has been attempted.
C12_NoDeleteWhileScanning ==
    (dir # dir0 \/ others # others0 \/ rm_done # {}) =>
        /\ todo = {}
        /\ rpc \notin {"start", "count", "classify"}
C12_Witness ==
    /\ pc = "retention" /\ rpc = "remove"
    /\ Cardinality(dir0) >= 3
    /\ kept_backups # {}
    /\ dir # dir0 /\ rm_done # for_removal

----------------------------------------------------------------------------
\* Properties of check_available_space (SpecSpace).

SizeOfJob == total_size_needed(disk_details, DOMAIN disk_details)

\* C13: for all sizes of the disks and all free space, the space check
\* fails when 10 * free < 11 * sum and succeeds otherwise; disks of 10 and 5
\* units pass with 20 units free and fail with 15.
C13_SpaceCheckIsTenPercent ==
    space_ok # "unchecked" =>
        /\ space_ok = "insufficient" <=> 10 * free_bytes < 11 * SizeOfJob
        /\ space_ok = "ok" <=> 10 * free_bytes >= 11 * SizeOfJob

----------------------------------------------------------------------------
\* Properties of the pre-flight of a run (Spec).

\* The run stopped on an unknown domain, an unresolvable disk, a disk that
\* is on a snapshot, or insufficient space.
ValidationStop ==
    /\ Done /\ exitCode = 1
    /\ \/ "error: domain not found" \in logs
       \/ "error: disks not found" \in logs
       \/ "critical: disk already on a snapshot" \in logs
       \/ space_ok = "insufficient"

\* C14: a run that stops on a validation error has mutated nothing before:
\* retention deleted no artifact, no job of the hypervisor was aborted,
\* no snapshot was created and no backup job was submitted.
C14_ValidationBeforeMutation ==
    ValidationStop =>
        /\ dir = dir0
        /\ Succeeded("domjobabort") = {}
        /\ ~SnapshotTaken
        /\ ~JobSubmitted

\* A strategy has been entered and has not yet asked for its snapshot or
\* its backup job: the disks are still on the files the run found them on.
StrategyEntered ==
    \/ pc \in {"a_build", "a_begin", "b_prep", "b_agent"}
    \/ pc = "retention" /\ rret = "a_build"
    \/ pc = "b_snapq" /\ attempt = 0

\* C15: no strategy is started when a disk of the domain, whichever device
\* it is, is backed by a file whose name carries the "_snapshot_" mark.
C15_DirtyDiskRejected ==
    StrategyEntered =>
        \A d \in DomainDevs : diskSrc[d] # NoFile => ~on_snapshot(diskSrc[d])

\* C16: no strategy is started on a domain that has a registered snapshot,
\* whatever the names of the files its disks are on.
C16_RegisteredSnapshotRejected ==
    (variant \in {"hotbkp", "live"} /\ StrategyEntered) => snapMeta = {}

\* C17: a strategy is started only after the pre-flight has made sure that
\* the domain has no active job: the job it found is gone when the run is
\* about to create its snapshot or to submit its backup job.
C17_NoStrategyWhilePriorJob ==
    (variant \in {"hotbkp", "live"} /\ StrategyEntered) => hvJob # "prior"

\* A requested device is not a disk of the domain or has no source file.
Unresolvable == \E d \in targets : d \notin DomainDevs \/ diskSrc[d] = NoFile

\* C18: the resolution of the disks is all or nothing: disk_details, once
\* set, has a path for every requested device; when a requested device is
\* absent from the descriptor or has no source file, disk_details stays
\* unset, no strategy is entered and the run does not end with status 0.
C18_ResolutionAllOrNothing ==
    /\ DOMAIN disk_details \in {{}, targets}
    /\ \A d \in DOMAIN disk_details : disk_details[d] # NoFile
    /\ Unresolvable =>
         /\ DOMAIN disk_details = {}
         /\ ~StrategyEntered
         /\ Done => exitCode # 0
    /\ "error: disks not found" \in logs => Done /\ exitCode = 1
C18_Witness ==
    /\ Done /\ exitCode = 1
    /\ targets = {"vda", "vdc"}
    /\ "error: disks not found" \in logs
    /\ DOMAIN disk_details = {}


\* Every requested disk has a complete artifact of this run.
BackupSucceeded == \A d \in targets : bak[d] = "complete"

\* C19: the exit status is 0 exactly when the backup succeeded, 130 when the
\* run was interrupted and 1 on every other failure.
C19_ExitStatusTellsOutcome ==
    Done =>
      /\ exitCode = 0 <=> (BackupSucceeded /\ ~interrupted)
      /\ interrupted => exitCode = 130
      /\ (~interrupted /\ ~BackupSucceeded) => exitCode = 1


\* ops grows by at most one request, and that request is the job's abort.
OnlyAbortAppended ==
    \/ ops' = ops
    \/ /\ Len(ops') = Len(ops) + 1
       /\ SubSeq(ops', 1, Len(ops)) = ops
       /\ ops'[Len(ops')].op = "domjobabort"

\* C20: once the interrupt has been received the run starts no new work: it
\* is in the interrupt handler or over, the only request it still issues is
\* the abort of the job, and it ends with a non-zero status.
C20_NoNewWorkAfterInterrupt ==
    /\ [](interrupted => pc \in {"kbd", "done"})
    /\ [](interrupted /\ Done => exitCode # 0)
    /\ [][interrupted => OnlyAbortAppended]_vars
C20_Witness ==
    /\ interrupted /\ Done /\ exitCode = 130
    /\ intAt = "b_snapq" /\ attempt = 1
    /\ Requests_of("rsync") = {}


QuiescedRequests == Requests_of("snapshot-create-as --quiesce")
PlainRequests == Requests_of("snapshot-create-as")
AllFailed(S) == \A i \in S : ops[i].res = "fail"
\* The snapshot step is over and the run was not interrupted during it.
SnapshotStepOver ==
    /\ pc \in {"b_snapq_ok", "b_snapnq_ok", "b_rsync", "b_rsync_run", "b_commit",
               "b_snapdel", "b_fail", "b_rm", "done"}
    /\ QuiescedRequests \cup PlainRequests # {}
    /\ ~(interrupted /\ intAt \in {"b_snapq", "b_snapnq"})

\* C21: at most three snapshots with --quiesce are requested, each after
\* the failure of the one before; when all of them have failed exactly one
\* snapshot without --quiesce is requested; the run fails at the snapshot
\* step only when that one fails; so at most four snapshot-create requests
\* are issued.
C21_BoundedQuiesceThenFallback ==
    /\ Cardinality(QuiescedRequests) <= 3
    /\ Cardinality(PlainRequests) <= 1
    /\ Cardinality(QuiescedRequests \cup PlainRequests) <= 4
    /\ \A i \in QuiescedRequests \cup PlainRequests :
         \A j \in QuiescedRequests : j < i => ops[j].res = "fail"
    /\ \A i \in PlainRequests : \A j \in QuiescedRequests : j < i
    /\ (SnapshotStepOver /\ AllFailed(QuiescedRequests)) =>
         Cardinality(PlainRequests) = 1
    /\ (SnapshotStepOver /\ Succeeded("snapshot-create-as --quiesce") # {}) =>
         PlainRequests = {}
    /\ (pc = "b_fail" /\ Requests_of("rsync") = {}) =>
         /\ Cardinality(QuiescedRequests) \in {0, 3}
         /\ AllFailed(QuiescedRequests)
         /\ Cardinality(PlainRequests) = 1 /\ AllFailed(PlainRequests)
C21_Witness ==
    /\ Cardinality(QuiescedRequests) = 3 /\ AllFailed(QuiescedRequests)
    /\ Succeeded("snapshot-create-as") # {}
    /\ Done /\ exitCode = 0


\* C22: a snapshot with --quiesce is requested only after the guest agent
\* answered the probe: without an answer no request carries --quiesce.
C22_QuiesceOnlyIfAgentAnswered ==
    QuiescedRequests # {} => agent_available


\* C24: a job-status query that fails during the wait loop only skips the
\* tick: unless the run is interrupted, a step taken in the loop leaves the
\* run in the loop or ends it with status 0, and issues no request (the job
\* is not cancelled).
C24_QueryFailureSkipsTick ==
    [][(pc = "a_poll" /\ ~interrupted') =>
         /\ pc' \in {"a_poll", "done"}
         /\ pc' = "done" => exitCode' = 0
         /\ ops' = ops]_vars

\* The requests made while cleaning up after a failure or an interrupt.
CleanupRequests == Requests_of("os.remove") \cup
    {i \in Requests_of("domjobabort") : \E j \in Requests_of("backupBegin") : j < i}
\* The removal of the artifact of a device was attempted.
RemovalAttempted(d) == \E i \in Requests_of("os.remove") : ops[i].dev = d

\* C25: the cleanup is best-effort per sub-step: when a cleanup sub-step
\* has failed (the abort request, or the removal of one artifact), every
\* artifact of the run that is still there when the run ends has had its
\* removal attempted.
C25_CleanupBestEffort ==
    (Done /\ \E i \in CleanupRequests : ops[i].res = "fail") =>
      \A d \in targets : bak[d] # "absent" => RemovalAttempted(d)

\* The positions in ops of the successful requests of an operation on a device.
SucceededOn(o, d) == {i \in Succeeded(o) : ops[i].dev = d}

\* C27: the snapshot strategy runs snapshot, copy, pivot, finalize in this
\* order: a copy is requested only after a snapshot was created, a pivot
\* only after the copy of every device succeeded, the metadata delete only
\* after the pivot of every device succeeded, and no device is copied after
\* its pivot was requested.
C27_SnapshotCopyPivotFinalize ==
    /\ \A i \in Requests_of("rsync") :
         /\ \E j \in Succeeded("snapshot-create-as --quiesce")
                    \cup Succeeded("snapshot-create-as") : j < i
         /\ \A j \in Requests_of("blockcommit") : ops[j].dev = ops[i].dev => i < j
    /\ \A i \in Requests_of("blockcommit") :
         \A d \in targets : \E j \in SucceededOn("rsync", d) : j < i
    /\ \A i \in Requests_of("snapshot-delete --metadata") :
         \A d \in targets : \E j \in SucceededOn("blockcommit", d) : j < i
C27_Witness ==
    /\ targets = {"vda", "vdb"}
    /\ Succeeded("snapshot-delete --metadata") # {}
    /\ Done /\ exitCode = 0

\* C28: a run of the snapshot strategy ends with status 0 only when its
\* four steps succeeded: every requested device writes to its base image
\* again, the metadata of the snapshot is deleted and every requested
\* device has its complete artifact.
C28_SnapshotSuccessMeansAllSteps ==
    (mode = "snapshot" /\ Done /\ exitCode = 0) =>
      /\ Succeeded("snapshot-create-as --quiesce") \cup Succeeded("snapshot-create-as") # {}
      /\ \A d \in targets :
           /\ SucceededOn("rsync", d) # {}
           /\ SucceededOn("blockcommit", d) # {}
           /\ diskSrc[d] = diskBase[d]
           /\ bak[d] = "complete"
      /\ Succeeded("snapshot-delete --metadata") # {}
      /\ LogicalSnapshotName \notin snapMeta
      /\ \A i \in 1..Len(ops) : ops[i].op \notin SnapshotOps => ops[i].res = "ok"
C28_Witness ==
    /\ mode = "snapshot" /\ Done /\ exitCode = 0
    /\ targets = {"vda", "vdb"}
    /\ ~quiesce_success

\* C29: the native strategy submits one backup request per run, naming an
\* artifact for every requested disk, and reports success only after the
\* submission succeeded and a poll found no active job; a job that ended in
\* failure is never reported as a successful backup.
C29_OneRequestAndHonestSuccess ==
    /\ Cardinality(Requests_of("backupBegin")) <= 1
    /\ Requests_of("backupBegin") # {} => backup_files_map = targets
    /\ (mode = "libvirt" /\ Done /\ exitCode = 0) =>
         /\ Succeeded("backupBegin") # {}
         /\ hvJob = "none"
         /\ hvJobResult = "completed"

\* C30: the wait loop has no timeout: while a job is active a step of the
\* run stays in the loop unless the query fails or the run is interrupted;
\* and when the main thread keeps running and the job ends, a run that
\* waits in the loop ends.
C30_WaitsUntilJobEnds ==
    /\ [][(pc = "a_poll" /\ hvJob # "none") =>
           (pc' = "a_poll" \/ pc' = "a_err" \/ interrupted')]_vars
    /\ (pc = "a_poll") ~> Done
C30_Witness ==
    /\ Done /\ exitCode = 0
    /\ backup_started /\ hvJobResult = "completed"
    /\ targets = {"vda", "vdb"}

----------------------------------------------------------------------------
\* Properties of the whole script (SpecMain).

\* The run submitted a native backup job / asked for an external snapshot.
NativeStarted == Requests_of("backupBegin") # {}
SnapshotStarted == QuiescedRequests \cup PlainRequests # {}

\* C23: a run never both submits a native backup job and asks for an
\* external snapshot, and a run given a mode that is neither of the two
\* starts neither strategy and ends with status 1.
C23_StrategiesExclusive ==
    /\ ~(NativeStarted /\ SnapshotStarted)
    /\ mode \notin choices => ~NativeStarted /\ ~SnapshotStarted
    /\ (mode \notin choices /\ Done /\ ~interrupted) => exitCode = 1


\* C26: when the log directory is not writable, setup_logging opens the
\* log file in another location and the run goes on: the step from
\* "logging" neither ends the run nor leaves the logger without a file.
C26_LogFallbackAndContinue ==
    [][(pc = "logging" /\ ~log_dir_ok /\ ~interrupted') =>
         /\ pc' # "done"
         /\ log_path' \notin {NoLog, Path(LOG_DIR, log_filename)}]_vars

----------------------------------------------------------------------------
\* Further properties of a run (Spec).

\* The child processes that have been started and have not ended.
Running == {i \in 1..Len(ops) : ops[i].res = "running"}
\* The position of a device in the order of the loops over the disks.
PositionOf(d) == CHOOSE k \in 1..Len(DiskOrder) : DiskOrder[k] = d

\* C31: the disks are processed one after the other: at most one child
\* process is running, it is the last one started, and the copy of a device
\* is started only after the copy of the device before it succeeded.
C31_DisksSequential ==
    /\ Cardinality(Running) <= 1
    /\ \A i \in Running : i = Len(ops)
    /\ \A i \in Requests_of("rsync") :
         \A k \in 1..(PositionOf(ops[i].dev) - 1) :
            \E j \in SucceededOn("rsync", DiskOrder[k]) : j < i
    /\ \A i, j \in Requests_of("rsync") : ops[i].dev = ops[j].dev => i = j
    /\ \A i, j \in Requests_of("blockcommit") : ops[i].dev = ops[j].dev => i = j
C31_Witness ==
    /\ pc = "b_rsync_run" /\ idx = 2
    /\ Running = {Len(ops)} /\ ops[Len(ops)].dev = "vdb"
    /\ SucceededOn("rsync", "vda") # {}

\* The positions of the main thread inside a strategy.
ExecutorPcs == {"a_build", "a_begin", "a_started", "a_poll", "a_err",
                "b_prep", "b_agent", "b_snapq", "b_snapq_ok", "b_snapnq", "b_snapnq_ok",
                "b_rsync", "b_rsync_run", "b_commit", "b_snapdel", "b_fail", "b_rm"}

\* C32: manage_retention is called exactly once in every run that reaches a
\* strategy, whichever the strategy, after the validation of the run has
\* passed (the disks are resolved and the space is sufficient) and before
\* the strategy starts.
C32_RetentionOnceBeforeExecutor ==
    /\ retention_calls <= 1
    /\ pc \in ExecutorPcs => retention_calls = 1
    /\ retention_calls > 0 => (disk_details # <<>> /\ space_ok = "ok")

\* A step of a strategy has failed: the handler of the strategy is running
\* or has run.
StrategyFailed ==
    \/ pc \in {"a_err", "b_fail", "b_rm"}
    \/ Done /\ exitCode # 0 /\ (NativeStarted \/ SnapshotStarted)
\* ops grows by nothing, or by a request of the cleanup.
OnlyCleanupAppended ==
    \/ ops' = ops
    \/ /\ Len(ops') = Len(ops) + 1
       /\ SubSeq(ops', 1, Len(ops)) = ops
       /\ ops'[Len(ops')].op \in {"domjobabort", "os.remove"}
\* A requested device still writes to the overlay this run created for it.
LeftOnOverlay(d) == d \in DOMAIN disk_details /\ diskSrc[d] = snap_path(d)

\* C33: after a step of a strategy has failed the run does not resume the
\* job: it requests no further snapshot, copy, pivot or backup job; and a
\* run that ends, uninterrupted, with a device left on its overlay has
\* logged a critical entry and ends with a non-zero status.
C33_NoResumeAfterFailure ==
    /\ [][StrategyFailed =>
           (OnlyCleanupAppended /\ (StrategyFailed' \/ pc' = "kbd"))]_vars
    /\ []((Done /\ ~interrupted /\ \E d \in targets : LeftOnOverlay(d)) =>
            /\ "critical: the domain may run on the snapshot" \in logs
            /\ exitCode # 0)
C33_Witness ==
    /\ Done /\ ~interrupted /\ exitCode = 1
    /\ targets = {"vda", "vdb"}
    /\ LeftOnOverlay("vdb") /\ ~LeftOnOverlay("vda")
    /\ "critical: the domain may run on the snapshot" \in logs

\* C34: a run of the snapshot strategy whose snapshot was taken without
\* --quiesce has logged, at warning level, that the snapshot is not
\* quiesced before its first copy starts.
C34_NoQuiesceWarned ==
    (Succeeded("snapshot-create-as") # {} /\ Requests_of("rsync") # {}) =>
      "warning: snapshot without quiesce" \in logs


\* A snapshot-creation request, with or without --quiesce.
SnapshotRequests == QuiescedRequests \cup PlainRequests

\* C35: at most one external snapshot is created per run: no snapshot
\* creation is requested after one has succeeded.
C35_OneSnapshotPerRun ==
    /\ Cardinality({i \in SnapshotRequests : ops[i].res = "ok"}) <= 1
    /\ \A i \in SnapshotRequests : ops[i].res = "ok" =>
         \A j \in SnapshotRequests : j <= i
    /\ Cardinality(snapMeta \cap {LogicalSnapshotName}) <= 1
    /\ snapshot_created => \E i \in SnapshotRequests : ops[i].res = "ok"
C35_Witness ==
    /\ pc = "b_rsync" /\ idx = 1
    /\ Cardinality(QuiescedRequests) = 2
    /\ ops[Len(ops)].op = "snapshot-create-as --quiesce" /\ ops[Len(ops)].res = "ok"


\* A requested disk of the domain is backed by a file that carries the mark.
DirtyRequested == \E d \in targets \cap DomainDevs : on_snapshot(diskSrc[d])

\* The snapshot of this run exists and no disk has been pivoted back yet.
OnOverlays ==
    /\ SnapshotTaken
    /\ pc \in {"b_snapq_ok", "b_snapnq_ok", "b_rsync", "b_rsync_run"}

\* C36: in virsh-hotbkp.py and kvm_backup_live.py the overlay the snapshot
\* strategy creates for a requested device has "_snapshot_" in its file name,
\* and a run that requests a device backed by such a file, before it has
\* taken a snapshot of its own, has requested no snapshot and submitted no
\* backup job: the clean-state check ends it with status 1.
C36_OverlayMarkedAndRejected ==
    variant \in {"hotbkp", "live"} =>
      /\ OnOverlays => \A d \in targets : on_snapshot(diskSrc[d])
      /\ \A d \in snapshot_files_map : on_snapshot(snap_path(d))
      /\ (DirtyRequested /\ ~SnapshotTaken) =>
            /\ SnapshotRequests = {} /\ ~NativeStarted
            /\ pc \notin ExecutorPcs \cup {"space", "route"}
            /\ (Done /\ ~interrupted) => exitCode = 1
C36_Witness ==
    /\ variant = "hotbkp" /\ mode = "snapshot" /\ targets = {"vda"}
    /\ diskSrc["vda"] = Path(ImagesDir, snap_filename(DomainName, "vda", "T0"))
    /\ pc = "done" /\ exitCode = 1
    /\ "critical: disk already on a snapshot" \in logs


\* C37: a step of manage_retention takes away nothing but regular files of
\* the backup directory whose name ends in ".bak": the other files and the
\* subdirectories of the directory stay, and so do the disk images and
\* everything else outside the directory.
C37_RetentionFrame ==
    [][pc = "retention" =>
         /\ others' = others
         /\ dir' \subseteq dir
         /\ \A f \in dir \ dir' : isfile(f) /\ endswith_bak(f) /\ f \in for_removal
         /\ dirExists' = dirExists
         /\ bak' = bak
         /\ diskSrc' = diskSrc /\ diskBase' = diskBase /\ snapMeta' = snapMeta]_vars
C37_Witness ==
    /\ Returned
    /\ others0 = OtherEntries /\ others = OtherEntries
    /\ dir # {} /\ dir # dir0


\* The error entries of a failure inside manage_retention.
RetentionErrors == {"error: retention failed", "error: removal failed"}

\* C38: in virsh-hotbkp.py and kvm_backup_live.py a failure inside
\* manage_retention (a getmtime that fails, a removal that fails, a listing
\* that fails) does not end the run: the failing step
\* logs the error, the function goes on or returns to its caller, and it
\* returns from its removal loop only when every marked file was tried.
C38_RetentionFailureTolerated ==
    [][(variant \in {"hotbkp", "live"} /\ pc = "retention") =>
         /\ faults' > faults =>
              /\ \E e \in RetentionErrors : e \in logs' /\ e \notin logs
              /\ exitCode' = exitCode
              /\ pc' \in {"retention", rret}
         /\ (rpc = "remove" /\ pc' = rret) => for_removal \subseteq rm_done]_vars


\* The request to abort the job found before the backup has failed: it is
\* the first request of the run (the handlers of Ctrl+C and of a failed
\* native backup send the same request for the job of the run itself).
AbortFailed ==
    /\ ~interrupted
    /\ ops # <<>> /\ ops[1].op = "domjobabort" /\ ops[1].res = "fail"

\* C39: when the run finds an active job on the domain and its abort
\* request fails, the run is over with status 1: it has called no
\* retention, removed no entry of the backup directory, written no
\* artifact, requested no snapshot and submitted no backup job, and the
\* disks of the domain are on the files they were on.
C39_FailedAbortStopsCleanly ==
    AbortFailed =>
      /\ Done /\ exitCode = 1
      /\ retention_calls = 0
      /\ dir = dir0 /\ others = others0
      /\ SnapshotRequests = {} /\ ~NativeStarted
      /\ Len(ops) = 1
      /\ snapshot_files_map = {} /\ ~snapshot_created /\ ~backup_started
      /\ snapMeta \in {{}, {<<"old">>}}
      /\ \A d \in DomainDevs : diskSrc[d] \in InitialSources(d)
C39_Witness ==
    /\ AbortFailed /\ Done /\ exitCode = 1
    /\ variant = "live" /\ mode = "snapshot"
    /\ dir0 # {} /\ dir = dir0


\* The run has left the domain, the backup directory and the hypervisor as
\* they were and has asked nothing of the hypervisor.
Untouched ==
    /\ ~conn /\ ~domOk /\ ops = <<>> /\ retention_calls = 0
    /\ dir = dir0 /\ others = others0
    /\ \A d \in DomainDevs : bak[d] = "absent"
    /\ \A d \in DomainDevs : diskSrc[d] = diskBase[d]
    /\ snapMeta = {}

\* C40 (as stated): in snapshot mode nothing is asked of the hypervisor
\* before the confirmation, and any answer other than 'y' ends the process
\* with status 1 and no effect on the domain.
C40_AnyOtherAnswerExits ==
    (variant \in {"hotbkp", "live"} /\ mode = "snapshot") =>
      /\ pc \in MainPcs => Untouched
      /\ ~Untouched => Len(answers) = Prompts
      /\ (\E i \in 1..Len(answers) : answers[i] # "y") =>
            Done /\ exitCode = 1 /\ Untouched

\* C40 (amended): in snapshot mode nothing is asked of the hypervisor before
\* every confirmation prompt (two in virsh-hotbkp.py, one in
\* kvm_backup_live.py) was answered, and an answer that is not 'y' once
\* stripped of its surrounding blanks and put in lower case ends the process
\* with status 1 and no effect on the domain; "Y" and " y " confirm.
C40_UnconfirmedExits ==
    (variant \in {"hotbkp", "live"} /\ mode = "snapshot") =>
      /\ pc \in MainPcs => Untouched
      /\ ~Untouched =>
            /\ Len(answers) = Prompts
            /\ \A i \in 1..Len(answers) : strip_lower(answers[i]) = "y"
      /\ (\E i \in 1..Len(answers) : strip_lower(answers[i]) # "y") =>
            Done /\ exitCode = 1 /\ Untouched
      /\ Len(answers) <= Prompts
C40_Witness ==
    /\ variant = "hotbkp" /\ mode = "snapshot"
    /\ answers = <<"y", " Y ">>
    /\ SnapshotTaken

====
